---- MODULE Spec2Model ----
(***************************************************************************)
(* Model of app.py of bag-scan-api: a Flask backend over one SQL Server    *)
(* table, bags(name PRIMARY KEY, scanned), plus two in-memory backup lists.*)
(*                                                                         *)
(* Strings are tuples of one-character strings, so that str.strip, the     *)
(* TODAY regular expression and str.upper are computed and not assumed.    *)
(*                                                                         *)
(* Database semantics assumed of the store (SQL Server through pyodbc):    *)
(*   - statements inside `with engine.begin()` form one transaction that   *)
(*     commits when the block exits normally and rolls back when an        *)
(*     exception leaves it; DDL (DROP/CREATE TABLE) is transactional;      *)
(*   - DROP/CREATE TABLE hold a schema lock on the table until the         *)
(*     transaction ends, and every other statement on the table waits;     *)
(*   - UPDATE holds exclusive row locks (and an intent lock on the table)  *)
(*     until commit; a SELECT holds nothing once it has returned and       *)
(*     reads committed data (READ COMMITTED).                              *)
(* Request handlers run on worker threads; `conc` is how many requests the *)
(* server serves at once (Flask's development server is threaded).         *)
(***************************************************************************)
EXTENDS Integers, Sequences, FiniteSets, TLC

\* ------------------------------------------------------------------ bounds

\* Worker threads of the server in the concurrent specification.
NProcs == 2
\* Longest spreadsheet (rows) the environment provides.
MaxRows == 2

Procs == 1..NProcs
None == 0

\* ----------------------------------------------------------------- strings

Space == " "

RECURSIVE LStrip(_)
LStrip(s) ==
  IF s # <<>> /\ Head(s) = Space THEN LStrip(Tail(s)) ELSE s

RECURSIVE RStrip(_)
RStrip(s) ==
  IF s # <<>> /\ s[Len(s)] = Space THEN RStrip(SubSeq(s, 1, Len(s) - 1)) ELSE s

\* str.strip() of the request's name.
Strip(s) == RStrip(LStrip(s))

\* A missing cell of the sheet (pandas NaN).
NaN == <<"NaN">>

\* Customer names of the sheets, and a name no sheet holds.
NameA == <<"a">>
NameB == <<"b">>
NameC == <<"c">>
CustNames == {NameA, NameB}

\* The "name" values POST /scan is sent: absent or empty, blank, known names
\* (one with surrounding blanks) and an unknown name.
RawNames ==
  { <<>>, <<" ">>, NameA, <<" ", "a", " ">>, NameB, NameC }

\* ------------------------------------------------- import: classification

Digits == {"0", "1", "2", "3", "4", "5", "6", "7", "8", "9"}

\* str.upper / str.lower, one character at a time (the letters the cells use).
UpperChar(c) ==
  CASE c = "t" -> "T" [] c = "o" -> "O" [] c = "d" -> "D" [] c = "a" -> "A"
    [] c = "y" -> "Y" [] c = "l" -> "L" [] c = "b" -> "B" [] c = "s" -> "S"
    [] c = "n" -> "N" [] c = "e" -> "E" [] c = "i" -> "I" [] c = "f" -> "F"
    [] c = "c" -> "C" [] c = "u" -> "U" [] c = "m" -> "M" [] c = "r" -> "R"
    [] c = "w" -> "W"
    [] OTHER -> c

LowerChar(c) ==
  CASE c = "T" -> "t" [] c = "O" -> "o" [] c = "D" -> "d" [] c = "A" -> "a"
    [] c = "Y" -> "y" [] c = "L" -> "l" [] c = "B" -> "b" [] c = "S" -> "s"
    [] c = "N" -> "n" [] c = "E" -> "e" [] c = "I" -> "i" [] c = "F" -> "f"
    [] c = "C" -> "c" [] c = "U" -> "u" [] c = "M" -> "m" [] c = "R" -> "r"
    [] c = "W" -> "w"
    [] OTHER -> c

Upper(s) == [i \in 1..Len(s) |-> UpperChar(s[i])]
Lower(s) == [i \in 1..Len(s) |-> LowerChar(s[i])]

\* `sub in s` at position i, and anywhere.
SubAt(s, sub, i) ==
  /\ i >= 1
  /\ i + Len(sub) - 1 <= Len(s)
  /\ \A k \in 1..Len(sub) : s[i + k - 1] = sub[k]

Contains(s, sub) == \E i \in 1..(Len(s) + 1) : SubAt(s, sub, i)

Today == <<"T", "O", "D", "A", "Y">>

\* The first index at or after i that holds no whitespace (\s* is greedy).
RECURSIVE SkipSpaces(_, _)
SkipSpaces(s, i) ==
  IF i <= Len(s) /\ s[i] = Space THEN SkipSpaces(s, i + 1) ELSE i

\* TODAY matched at i under re.IGNORECASE.
TodayAt(s, i) ==
  /\ i + 4 <= Len(s)
  /\ \A k \in 1..5 : LowerChar(s[i + k - 1]) = LowerChar(Today[k])

\* re.sub(r"\s*TODAY\s*", "", s, flags=re.IGNORECASE): leftmost matches, left
\* to right, without overlap.
RECURSIVE SubToday(_, _)
SubToday(s, i) ==
  IF i > Len(s) THEN <<>>
  ELSE LET j == SkipSpaces(s, i) IN
       IF TodayAt(s, j) THEN SubToday(s, SkipSpaces(s, j + 5))
       ELSE <<s[i]>> \o SubToday(s, i + 1)

\* df["Actual_Date"]: the date cell with the token stripped.
ActualDate(d) == SubToday(d, 1)

\* df["Date"].astype(str).str.upper().str.contains("TODAY")
HasToday(d) == Contains(Upper(d), Today)

\* str(v) of a cell: a missing cell prints as nan.
Str(v) == IF v = NaN THEN <<"n", "a", "n">> ELSE v

IsDigit(s) == s # <<>> /\ \A i \in 1..Len(s) : s[i] \in Digits

\* The first index at or after i that holds no digit.
RECURSIVE DigitsEnd(_, _)
DigitsEnd(s, i) ==
  IF i <= Len(s) /\ s[i] \in Digits THEN DigitsEnd(s, i + 1) ELSE i

\* An exponent from index i to the end of s: e or E, a sign, digits.
IsExponent(s, i) ==
  /\ i <= Len(s)
  /\ s[i] \in {"e", "E"}
  /\ LET j == IF i + 1 <= Len(s) /\ s[i + 1] \in {"+", "-"} THEN i + 2 ELSE i + 1
     IN  j <= Len(s) /\ DigitsEnd(s, j) = Len(s) + 1

\* An unsigned decimal literal: digits, a point, digits, an exponent.
IsDecimal(s) ==
  LET j == DigitsEnd(s, 1)
      point == j <= Len(s) /\ s[j] = "."
      k == IF point THEN DigitsEnd(s, j + 1) ELSE j
      ndigits == (j - 1) + (IF point THEN k - (j + 1) ELSE 0)
  IN  /\ ndigits >= 1
      /\ k = Len(s) + 1 \/ IsExponent(s, k)

\* Whether float(s) returns: a sign, then nan, inf, infinity or a decimal.
IsFloat(s0) ==
  LET s == Strip(s0)
      u == IF s # <<>> /\ Head(s) \in {"+", "-"} THEN Tail(s) ELSE s
  IN  \/ Lower(u) \in { <<"n", "a", "n">>, <<"i", "n", "f">>,
                        <<"i", "n", "f", "i", "n", "i", "t", "y">> }
      \/ IsDecimal(u)

HangDry == "Hang Dry"
WashAndFold == "Wash and Fold"

classify_service(v) ==
  LET s == Strip(Str(v)) IN
  IF IsDigit(s) THEN HangDry
  ELSE IF IsFloat(s) THEN WashAndFold
  ELSE IF Contains(Lower(s), <<"l", "b", "s">>) THEN WashAndFold
  ELSE HangDry

\* df.dropna(subset=["Date", "Customer Name"])
RECURSIVE DropNa(_)
DropNa(rows) ==
  IF rows = <<>> THEN <<>>
  ELSE IF Head(rows).Date = NaN \/ Head(rows).Customer = NaN
       THEN DropNa(Tail(rows))
       ELSE <<Head(rows)>> \o DropNa(Tail(rows))

\* The rush dates taken from the raw cells, token and all.
RushDaysRaw(rows) ==
  { rows[i].Date : i \in { k \in 1..Len(rows) : HasToday(rows[k].Date) } }


\* set(df.loc[has_today, "Actual_Date"])
RushDays(rows) ==
  { ActualDate(rows[i].Date) : i \in { k \in 1..Len(rows) : HasToday(rows[k].Date) } }

\* lambda d: "RUSH" if d in rush_days else "NON-RUSH"
Rush(d, rush_days) == IF d \in rush_days THEN "RUSH" ELSE "NON-RUSH"

\* The data frame import_data builds from the rows of the sheet.
Classify(sheet) ==
  LET rows == DropNa(sheet)
      rush_days == RushDays(rows)
  IN  [i \in 1..Len(rows) |->
         [ Date |-> rows[i].Date,
           Customer |-> rows[i].Customer,
           WF |-> rows[i].WF,
           Category |-> classify_service(rows[i].WF),
           Actual_Date |-> ActualDate(rows[i].Date),
           Rush |-> Rush(ActualDate(rows[i].Date), rush_days) ] ]

\* ------------------------------------------------------------------ sheets

\* Column headers of the sheets.
HDate == <<"D", "a", "t", "e", " ">>
HCustomer == <<"C", "u", "s", "t", "o", "m", "e", "r">>
HWF == <<"W", "F">>
HLbs == <<"L", "B", "S">>
HOther == <<"I", "D">>

\* The header row of a sheet with its three columns.
GoodColumns == <<HDate, HCustomer, HWF>>

\* Header rows with the weight column under its other name, with a column
\* missing (date, customer, weight), and of a sheet with none of the three.
OtherColumns ==
  { <<HOther, HDate, HCustomer, HLbs>>,
    <<HCustomer, HWF>>, <<HDate, HLbs>>, <<HDate, HCustomer>>,
    <<HOther>>, <<>> }

\* next(c for c in df.columns if <one of subs> in c.lower()), on the headers
\* stripped by df.rename: the first such column, 0 when next() raises
\* StopIteration.
PickColumn(columns, subs) ==
  LET hits == { i \in 1..Len(columns) :
                  \E sub \in subs : Contains(Lower(Strip(columns[i])), sub) }
  IN  IF hits = {} THEN 0 ELSE CHOOSE i \in hits : \A j \in hits : i <= j

\* date_col, name_col and wf_col are all found.
Resolved(columns) ==
  /\ PickColumn(columns, { <<"d", "a", "t", "e">> }) # 0
  /\ PickColumn(columns, { <<"c", "u", "s", "t", "o", "m", "e", "r">> }) # 0
  /\ PickColumn(columns, { <<"w", "f">>, <<"l", "b", "s">> }) # 0

\* The file testrunrinse.xlsx of the working directory: whether it is there,
\* its header row, and its rows under the resolved columns (date, customer,
\* weight).
File(rows) == [present |-> TRUE, columns |-> GoodColumns, rows |-> rows]
NoFile == [present |-> FALSE, columns |-> <<>>, rows |-> <<>>]

\* Sheets under the other header rows; where a column does not resolve the
\* rows are never read.
OtherFiles ==
  { [present |-> TRUE, columns |-> c, rows |-> <<>>] : c \in OtherColumns }

RECURSIVE SeqsUpTo(_, _)
SeqsUpTo(S, n) ==
  IF n = 0 THEN { <<>> }
  ELSE LET shorter == SeqsUpTo(S, n - 1)
       IN  shorter \cup { Append(q, x) : q \in { r \in shorter : Len(r) = n - 1 }, x \in S }

Row(d, n, w) == [Date |-> d, Customer |-> n, WF |-> w]

\* The rows of the sheets the request handlers are exercised with: one order
\* per customer, and a line with no customer name.
MainRows ==
  { Row(<<"1", " ", "T", "O", "D", "A", "Y">>, NameA, <<"5">>),
    Row(<<"1">>, NameB, <<"2", ".", "5">>),
    Row(<<"2">>, NaN, <<"3">>) }

MainFiles ==
  {NoFile} \cup OtherFiles \cup { File(r) : r \in SeqsUpTo(MainRows, MaxRows) }

\* Date cells: with the token (upper, lower and mixed case, before and after
\* the date, doubled), without it, and missing.
DateCells ==
  { <<"7", "/", "1", " ", "T", "O", "D", "A", "Y">>,
    <<"7", "/", "1">>,
    <<"7", "/", "2">>,
    <<"7", "/", "1", " ", "t", "o", "d", "a", "y">>,
    <<"T", "o", "D", "a", "y", " ", "7", "/", "2">>,
    <<"7", "/", "1", " ">>,
    <<"T", "O", "D", "T", "O", "D", "A", "Y", "A", "Y">>,
    <<"T", "O", "D", "A", "Y">>,
    NaN }

\* Weight cells as str(v) prints them: whole and decimal numbers, zero, a
\* number with its unit, words, an empty cell and a missing one.
WeightCells ==
  { <<"5">>, <<"0">>, <<"2", ".", "5">>, <<"0", ".", "0">>,
    <<"5", " ", "l", "b", "s">>, <<"8", "L", "B", "S">>,
    <<"h", "a", "n", "g">>, <<"-", "1">>, <<"1", "e", "3">>, <<>>, NaN }

\* Rows that differ in their date cell (and a line with no customer), and rows
\* that differ in their weight cell.
DateRows ==
  { Row(d, NameA, <<"5">>) : d \in DateCells }
    \cup { Row(<<"7", "/", "1", " ", "T", "O", "D", "A", "Y">>, NaN, <<"5">>) }

WeightRows == { Row(<<"7", "/", "1">>, NameB, w) : w \in WeightCells }

\* Longest sheet the classification is exercised with.
MaxBatch == 3

ClassifyFiles ==
  { File(r) : r \in SeqsUpTo(DateRows, MaxBatch) \cup SeqsUpTo(WeightRows, MaxBatch) }

\* ------------------------------------------------------------------- state

VARIABLES
  tbl,           \* the committed table bags: [exists, rows], rows in insertion order
  schLock,       \* the transaction holding the table's schema lock, or None
  dbUp,          \* whether the database answers
  bag_list,      \* app.py's global bag_list
  scanned_bags,  \* app.py's global scanned_bags
  conc,          \* how many worker threads serve requests
  pc,            \* each worker's place in its handler
  key,           \* scan: the stripped name
  df,            \* import_data: the data frame
  work,          \* import_data: the table as its open transaction sees it
  tmp,           \* status: total and remaining
  rowcount,      \* scan: rows its UPDATE matched
  ocr,           \* ocr: polls made, and the job status the last one read
  out,           \* the response being sent in this step, with what its request found
  hist,          \* history: the last two requests answered (single worker)
  successes,     \* history: per name, success responses since the last import
  lastImport,    \* history: the names of the last committed import
  scannedSince,  \* history: the names scanned with success since then
  imported       \* history: the last import answered 200 and the state it left (single worker)

vars ==
  << tbl, schLock, dbUp, bag_list, scanned_bags, conc, pc, key, df, work, tmp,
     rowcount, ocr, out, hist, successes, lastImport, scannedSince, imported >>

Keys == { Strip(r) : r \in RawNames } \ { <<>> }

NoTable == [exists |-> FALSE, rows |-> <<>>]
Table(rows) == [exists |-> TRUE, rows |-> rows]

\* ------------------------------------------------------------- SQL queries

\* SELECT COUNT(*) FROM bags, its WHERE clause lost.
CountAll(rows, n) == Len(rows)


\* SELECT COUNT(*) FROM bags WHERE name = :n
CountName(rows, n) == Cardinality({ i \in 1..Len(rows) : rows[i].name = n })

\* SELECT scanned FROM bags WHERE name = :n, .scalar(): the first row's value,
\* None (falsy) when no row matches.
ScannedOf(rows, n) ==
  LET hits == { i \in 1..Len(rows) : rows[i].name = n } IN
  IF hits = {} THEN FALSE
  ELSE rows[CHOOSE i \in hits : \A j \in hits : i <= j].scanned

\* UPDATE bags SET scanned = 1, its WHERE clause lost.
UpdateScannedAll(rows, n) ==
  [i \in 1..Len(rows) |-> [rows[i] EXCEPT !.scanned = TRUE]]


\* UPDATE bags SET scanned = 1 - scanned
UpdateToggle(rows, n) ==
  [i \in 1..Len(rows) |->
     IF rows[i].name = n THEN [rows[i] EXCEPT !.scanned = ~rows[i].scanned]
     ELSE rows[i]]


\* UPDATE bags SET scanned = 1 WHERE name = :n
UpdateScanned(rows, n) ==
  [i \in 1..Len(rows) |->
     IF rows[i].name = n THEN [rows[i] EXCEPT !.scanned = TRUE] ELSE rows[i]]

\* SELECT COUNT(*) FROM bags WHERE scanned = 1
ScannedCount(rows) == Cardinality({ i \in 1..Len(rows) : rows[i].scanned })

\* name NVARCHAR(200) PRIMARY KEY: an INSERT of a name the table holds fails.
PKViolation(rows, n) == \E i \in 1..Len(rows) : rows[i].name = n

\* INSERT INTO bags (name, scanned) VALUES (:n, 0)
InsertRow(rows, n) == Append(rows, [name |-> n, scanned |-> FALSE])

\* Each statement commits by itself: the others see the table as it is rebuilt.
VisibleOwn(committed, own) == own


\* `with engine.begin()`: what the other connections see of the table while the
\* transaction is open is the committed table, not the transaction's own.
Visible(committed, own) == committed

\* -------------------------------------------------------------- responses

\* A response (code, kind and body) with, for the history, the request it
\* answers (op, key), the worker that served it and what that request found: whether the key named an
\* unscanned row, and the count of scanned rows before and after it.
Resp(op, code, kind) ==
  [op |-> op, by |-> None, key |-> <<>>, code |-> code, kind |-> kind,
   total |-> 0, scanned |-> 0, remaining |-> 0, bags |-> <<>>,
   fresh |-> FALSE, before |-> 0, after |-> 0]

NoResp == Resp("none", 0, "none")

\* status, database path: remaining = total - scanned
DbRemaining(total, scanned) == total - scanned

\* status, fallback: [n for n in bag_list if n not in scanned_bags]
MemRemaining(bl, sb) ==
  Cardinality({ i \in 1..Len(bl) : \A j \in 1..Len(sb) : sb[j] # bl[i] })

StatusResp(total, scanned, remaining) ==
  [Resp("status", 200, "status") EXCEPT !.total = total, !.scanned = scanned,
                                        !.remaining = remaining]

\* ---------------------------------------------------------------- history

\* What is kept of an answered request.
Summary(r) ==
  [op |-> r.op, key |-> r.key, kind |-> r.kind, fresh |-> r.fresh,
   before |-> r.before, after |-> r.after]

NoLocal == [total |-> 0, remaining |-> 0]

\* No poll made yet: the job has just been submitted.
NoOcr == [attempt |-> 0, status |-> "notStarted"]

Last2(h) == IF Len(h) > 2 THEN Tail(h) ELSE h

\* No import has succeeded yet.
NoImport ==
  [done |-> FALSE, again |-> FALSE, df |-> <<>>, tbl |-> NoTable,
   bag_list |-> <<>>, scanned_bags |-> <<>>]

\* The cells of a data frame as the sheet gave them, without the columns the
\* import derives.
RawOf(d) ==
  [i \in 1..Len(d) |-> [Date |-> d[i].Date, Customer |-> d[i].Customer, WF |-> d[i].WF]]

\* The response as sent, with what the request found in the table.
Found(r, t) ==
  [r EXCEPT !.fresh = CountName(tbl.rows, r.key) > 0 /\ ~ScannedOf(tbl.rows, r.key),
            !.before = ScannedCount(tbl.rows),
            !.after = ScannedCount(t.rows)]

\* The worker answers r and is free again; t is the table it leaves. With a
\* single worker nothing else touches the table during a request, so the
\* table of the answering step is the table the request found.
Finish(p, r, t) ==
  /\ pc' = [pc EXCEPT ![p] = "idle"]
  /\ out' = [Found(r, t) EXCEPT !.by = p]
  /\ hist' = IF conc = 1 THEN Last2(Append(hist, Summary(Found(r, t)))) ELSE hist
  /\ key' = [key EXCEPT ![p] = <<>>]
  /\ df' = [df EXCEPT ![p] = <<>>]
  /\ tmp' = [tmp EXCEPT ![p] = NoLocal]
  /\ rowcount' = [rowcount EXCEPT ![p] = 0]
  /\ ocr' = [ocr EXCEPT ![p] = NoOcr]

\* The worker moves on inside its handler.
Goto(p, label) ==
  /\ pc' = [pc EXCEPT ![p] = label]
  /\ out' = NoResp
  /\ UNCHANGED hist

\* Worker p is one of the server's threads and is free.
CanStart(p) == p <= conc /\ pc[p] = "idle"

\* A statement raises: the database is away, or the table is not there.
DbError == ~dbUp \/ (schLock = None /\ ~tbl.exists)
\* A statement on the table runs: nobody holds the schema lock.
DbReady == dbUp /\ schLock = None /\ tbl.exists

Start(c) ==
  /\ tbl = NoTable
  /\ schLock = None
  /\ dbUp = TRUE
  /\ bag_list = <<>>
  /\ scanned_bags = <<>>
  /\ conc = c
  /\ pc = [p \in Procs |-> "idle"]
  /\ key = [p \in Procs |-> <<>>]
  /\ df = [p \in Procs |-> <<>>]
  /\ work = [p \in Procs |-> NoTable]
  /\ tmp = [p \in Procs |-> NoLocal]
  /\ rowcount = [p \in Procs |-> 0]
  /\ ocr = [p \in Procs |-> NoOcr]
  /\ out = NoResp
  /\ hist = <<>>
  /\ successes = [k \in Keys |-> 0]
  /\ lastImport = <<>>
  /\ scannedSince = {}
  /\ imported = NoImport

\* The threaded server: NProcs requests at once.
Init == Start(NProcs)

\* ------------------------------------------------------------ POST /scan

mem == << bag_list, scanned_bags >>
env == << dbUp, conc >>
ghost == << successes, lastImport, scannedSince, imported >>
locals == << key, df, tmp, rowcount, ocr >>

ScanResp(k, code, kind) == [Resp("scan", code, kind) EXCEPT !.key = k]

\* name = data.get("name", "").strip(); an empty name is answered at once.
ScanStart(p, raw) ==
  /\ CanStart(p)
  /\ LET name == Strip(raw) IN
     IF name = <<>>
     THEN Finish(p, ScanResp(name, 400, "noname"), tbl)
     ELSE /\ key' = [key EXCEPT ![p] = name]
          /\ Goto(p, "s_exists")
          /\ UNCHANGED << df, tmp, rowcount, ocr >>
  /\ UNCHANGED << tbl, schLock, mem, env, work, ghost >>

\* An exception leaves scan: Flask answers 500.
ScanRaise(p) == Finish(p, ScanResp(key[p], 500, "error"), tbl)

\* exists = SELECT COUNT(*) ... WHERE name = :n; if not exists: 400
ScanExists(p) ==
  /\ pc[p] = "s_exists"
  /\ IF DbError
     THEN ScanRaise(p)
     ELSE /\ DbReady
          /\ IF CountName(tbl.rows, key[p]) = 0
             THEN Finish(p, ScanResp(key[p], 400, "notfound"), tbl)
             ELSE Goto(p, "s_already") /\ UNCHANGED locals
  /\ UNCHANGED << tbl, schLock, mem, env, work, ghost >>

\* already = SELECT scanned ... WHERE name = :n; if already: 400
ScanAlready(p) ==
  /\ pc[p] = "s_already"
  /\ IF DbError
     THEN ScanRaise(p)
     ELSE /\ DbReady
          /\ IF ScannedOf(tbl.rows, key[p])
             THEN Finish(p, ScanResp(key[p], 400, "already"), tbl)
             ELSE Goto(p, "s_update") /\ UNCHANGED locals
  /\ UNCHANGED << tbl, schLock, mem, env, work, ghost >>

\* Another open transaction has updated a row named n and not committed yet.
RowLocked(p, n) ==
  \E q \in Procs \ {p} : pc[q] = "s_commit" /\ key[q] = n /\ rowcount[q] > 0

\* UPDATE bags SET scanned = 1 WHERE name = :n, waiting for the row's lock
ScanUpdate(p) ==
  /\ pc[p] = "s_update"
  /\ IF DbError
     THEN ScanRaise(p)
     ELSE /\ DbReady
          /\ ~RowLocked(p, key[p])
          /\ rowcount' = [rowcount EXCEPT ![p] = CountName(tbl.rows, key[p])]
          /\ Goto(p, "s_commit")
          /\ UNCHANGED << key, df, tmp, ocr >>
  /\ UNCHANGED << tbl, schLock, mem, env, work, ghost >>

\* The with block ends: the transaction commits, and the handler answers 200.
ScanCommit(p) ==
  /\ pc[p] = "s_commit"
  /\ IF ~dbUp
     THEN /\ ScanRaise(p)
          /\ UNCHANGED << tbl, ghost >>
     ELSE LET t == [tbl EXCEPT !.rows = UpdateScanned(tbl.rows, key[p])] IN
          /\ tbl' = t
          /\ successes' = [successes EXCEPT ![key[p]] = @ + 1]
          /\ scannedSince' = scannedSince \cup {key[p]}
          /\ UNCHANGED << lastImport, imported >>
          /\ Finish(p, ScanResp(key[p], 200, "ok"), t)
  /\ UNCHANGED << schLock, mem, env, work >>

\* ------------------------------------------------------ POST /import-data

\* The handler's except answering 200.
ImportErrorOk(e) == Resp("import", 200, e)

\* except Exception as e: return jsonify({"error": str(e)}), 500, where e is
\* a column that is not found ("schema": StopIteration), the database being
\* away ("operational"), the table being there already at the CREATE
\* ("exists") or a name inserted twice ("integrity").
ImportError(e) == Resp("import", 500, e)

\* os.path.exists, read_excel and the classification: what the handler holds
\* once the file is read.
Load(f) ==
  [present |-> f.present,
   resolved |-> f.present /\ Resolved(f.columns),
   df |-> IF f.present /\ Resolved(f.columns) THEN Classify(f.rows) ELSE <<>>]

MainLoads == { Load(f) : f \in MainFiles }

\* The file is looked for and read, and the data frame classified.
ImportLoadFrom(p, loads) ==
  /\ CanStart(p)
  /\ \E l \in loads :
       IF ~l.present
       THEN Finish(p, Resp("import", 500, "nofile"), tbl)
       ELSE IF ~l.resolved
       THEN Finish(p, ImportError("schema"), tbl)
       ELSE /\ df' = [df EXCEPT ![p] = l.df]
            /\ Goto(p, "i_drop")
            /\ UNCHANGED << key, tmp, rowcount, ocr >>
  /\ UNCHANGED << tbl, schLock, mem, env, work, ghost >>

ImportLoad(p) == ImportLoadFrom(p, MainLoads)

\* An exception leaves the with block: the transaction rolls back, its locks
\* go, and the handler's except answers 500.
ImportFail(p, e) ==
  /\ schLock' = IF schLock = p THEN None ELSE schLock
  /\ work' = [work EXCEPT ![p] = NoTable]
  /\ Finish(p, ImportError(e), tbl)
  /\ UNCHANGED << tbl, mem, env, ghost >>

\* A scan's UPDATE holds its intent lock on the table until it commits.
TableInUse(p) == \E q \in Procs \ {p} : pc[q] = "s_commit"

\* engine.begin(); DROP TABLE IF EXISTS bags
ImportDrop(p) ==
  /\ pc[p] = "i_drop"
  /\ IF ~dbUp
     THEN ImportFail(p, "operational")
     ELSE /\ schLock = None
          /\ ~TableInUse(p)
          /\ schLock' = IF tbl.exists THEN p ELSE None
          /\ work' = [work EXCEPT ![p] = NoTable]
          /\ tbl' = Visible(tbl, NoTable)
          /\ Goto(p, "i_create")
          /\ UNCHANGED << mem, env, locals, ghost >>

\* CREATE TABLE bags (name ... PRIMARY KEY, scanned BIT NOT NULL)
ImportCreate(p) ==
  /\ pc[p] = "i_create"
  /\ IF ~dbUp \/ (schLock = None /\ tbl.exists)
     THEN ImportFail(p, IF ~dbUp THEN "operational" ELSE "exists")
     ELSE /\ schLock \in {None, p}
          /\ schLock' = p
          /\ work' = [work EXCEPT ![p] = Table(<<>>)]
          /\ tbl' = Visible(tbl, Table(<<>>))
          /\ Goto(p, IF df[p] = <<>> THEN "i_commit" ELSE "i_insert")
          /\ UNCHANGED << mem, env, locals, ghost >>

\* for name in df["Customer Name"]: INSERT ... (one pass of the loop)
ImportInsert(p) ==
  /\ pc[p] = "i_insert"
  /\ LET n == df[p][Len(work[p].rows) + 1].Customer IN
     IF ~dbUp \/ PKViolation(work[p].rows, n)
     THEN ImportFail(p, IF ~dbUp THEN "operational" ELSE "integrity")
     ELSE LET w == Table(InsertRow(work[p].rows, n)) IN
          /\ work' = [work EXCEPT ![p] = w]
          /\ tbl' = Visible(tbl, w)
          /\ Goto(p, IF Len(w.rows) = Len(df[p]) THEN "i_commit" ELSE "i_insert")
          /\ UNCHANGED << schLock, mem, env, locals, ghost >>

\* df["Customer Name"].astype(str).tolist()
NamesOf(d) == [i \in 1..Len(d) |-> Str(d[i].Customer)]

\* The table of the transaction, with the scanned flags of the rows it replaces.
CommitKeepScanned(committed, own) ==
  [own EXCEPT !.rows =
     [i \in 1..Len(own.rows) |->
        [own.rows[i] EXCEPT !.scanned = ScannedOf(committed.rows, own.rows[i].name)]]]

\* What the commit of the rebuild leaves: the table the transaction dropped,
\* created and filled.
CommitTable(committed, own) == own

\* The with block ends: the transaction commits and the new table shows.
ImportCommit(p) ==
  /\ pc[p] = "i_commit"
  /\ IF ~dbUp
     THEN ImportFail(p, "operational")
     ELSE /\ tbl' = CommitTable(tbl, work[p])
          /\ schLock' = None
          /\ work' = [work EXCEPT ![p] = NoTable]
          /\ successes' = [k \in Keys |-> 0]
          /\ lastImport' = NamesOf(df[p])
          /\ scannedSince' = {}
          /\ imported' =
               IF conc = 1
               THEN [imported EXCEPT !.again =
                       /\ imported.done
                       /\ RawOf(df[p]) = RawOf(imported.df)
                       /\ scannedSince # {}]
               ELSE imported
          /\ Goto(p, "i_mem")
          /\ UNCHANGED << mem, env, locals >>

\* bag_list = df["Customer Name"].astype(str).tolist(); scanned_bags = []
ImportMem(p) ==
  /\ pc[p] = "i_mem"
  /\ bag_list' = NamesOf(df[p])
  /\ scanned_bags' = <<>>
  /\ Goto(p, "i_reply")
  /\ UNCHANGED << tbl, schLock, env, locals, work, ghost >>

\* return jsonify({"message": f"Imported {len(bag_list)} bags"}): the global
\* list is read again, as it is by now.
ImportReply(p) ==
  /\ pc[p] = "i_reply"
  /\ Finish(p, [Resp("import", 200, "imported") EXCEPT !.total = Len(bag_list)], tbl)
  /\ imported' =
       IF conc = 1
       THEN [imported EXCEPT !.done = TRUE, !.df = df[p], !.tbl = tbl,
                             !.bag_list = bag_list, !.scanned_bags = scanned_bags]
       ELSE imported
  /\ UNCHANGED << tbl, schLock, mem, env, work, successes, lastImport, scannedSince >>

\* ------------------------------------------------------------ GET /status

\* engine.connect(); total = SELECT COUNT(*) FROM bags
StatusTotal(p) ==
  /\ CanStart(p)
  /\ IF DbError
     THEN /\ Goto(p, "st_fallback")
          /\ UNCHANGED tmp
     ELSE /\ DbReady
          /\ tmp' = [tmp EXCEPT ![p].total = Len(tbl.rows)]
          /\ Goto(p, "st_scanned")
  /\ UNCHANGED << tbl, schLock, mem, env, key, df, rowcount, ocr, work, ghost >>

\* scanned = SELECT COUNT(*) ... WHERE scanned = 1; remaining = total - scanned
StatusScanned(p) ==
  /\ pc[p] = "st_scanned"
  /\ IF DbError
     THEN Goto(p, "st_fallback") /\ UNCHANGED locals
     ELSE /\ DbReady
          /\ LET scanned == ScannedCount(tbl.rows) IN
             Finish(p, StatusResp(tmp[p].total, scanned,
                                  DbRemaining(tmp[p].total, scanned)), tbl)
  /\ UNCHANGED << tbl, schLock, mem, env, work, ghost >>

\* except: remaining = [n for n in bag_list if n not in scanned_bags]
StatusFallback(p) ==
  /\ pc[p] = "st_fallback"
  /\ tmp' = [tmp EXCEPT ![p].remaining = MemRemaining(bag_list, scanned_bags)]
  /\ Goto(p, "st_reply")
  /\ UNCHANGED << tbl, schLock, mem, env, key, df, rowcount, ocr, work, ghost >>

\* return total = len(bag_list), scanned = len(scanned_bags), len(remaining)
StatusReply(p) ==
  /\ pc[p] = "st_reply"
  /\ Finish(p, [StatusResp(Len(bag_list), Len(scanned_bags), tmp[p].remaining)
                  EXCEPT !.kind = "fallback"], tbl)
  /\ UNCHANGED << tbl, schLock, mem, env, work, ghost >>

\* -------------------------------------------------------------- GET /bags

\* [{"name": r[0], "scanned": bool(r[1])} for r in rows]
DbBags(rows) == rows

\* [{"name": name, "scanned": name in scanned_bags} for name in bag_list]
MemBags(bl, sb) ==
  [i \in 1..Len(bl) |->
     [name |-> bl[i], scanned |-> \E j \in 1..Len(sb) : sb[j] = bl[i]]]

BagsResp(b) == [Resp("bags", 200, "bags") EXCEPT !.bags = b]

get_bags(p) ==
  /\ CanStart(p)
  /\ IF DbError
     THEN Finish(p, BagsResp(MemBags(bag_list, scanned_bags)), tbl)
     ELSE /\ DbReady
          /\ Finish(p, BagsResp(DbBags(tbl.rows)), tbl)
  /\ UNCHANGED << tbl, schLock, mem, env, work, ghost >>

\* ---------------------------------------------------------- POST /api/ocr

\* for _ in range(15)
MaxPolls == 15

OcrResp(code, kind) == Resp("ocr", code, kind)

\* An exception leaves ocr (requests raising, a name that is not defined):
\* Flask answers 500 with its own page, not a JSON error body.
OcrRaise(p, kind) == Finish(p, OcrResp(500, kind), tbl)

\* if "image" not in request.files: 400
OcrStart(p, image) ==
  /\ CanStart(p)
  /\ IF ~image
     THEN Finish(p, OcrResp(400, "noimage"), tbl)
     ELSE Goto(p, "o_submit") /\ UNCHANGED locals
  /\ UNCHANGED << tbl, schLock, mem, env, work, ghost >>

\* What the POST to the Read API comes to: the connection fails, a status
\* other than 200 and 202, no Operation-Location header, or a job handle.
Submits == {"raise", "rejected", "nolocation", "accepted"}

\* r = requests.post(read_url, ...); status check; Operation-Location check
OcrSubmit(p) ==
  /\ pc[p] = "o_submit"
  /\ \E r \in Submits :
       CASE r = "raise" -> OcrRaise(p, "error")
         [] r = "rejected" -> Finish(p, OcrResp(500, "readfailed"), tbl)
         [] r = "nolocation" -> Finish(p, OcrResp(500, "nolocation"), tbl)
         [] r = "accepted" -> Goto(p, "o_poll") /\ UNCHANGED locals
  /\ UNCHANGED << tbl, schLock, mem, env, work, ghost >>

\* The statuses a job of the Read API reports after having reported s: a
\* failed job stays failed.
JobNext(s) ==
  IF s = "failed" THEN {"failed"}
  ELSE {"notStarted", "running", "failed", "succeeded"}

\* One pass of the polling loop: the GET (which may raise), the test for
\* "succeeded", the sleep; the loop's else once range(15) is used up.
OcrPoll(p) ==
  /\ pc[p] = "o_poll"
  /\ \/ OcrRaise(p, "error")
     \/ \E st \in JobNext(ocr[p].status) :
          IF st = "succeeded"
          THEN /\ ocr' = [ocr EXCEPT ![p].status = st]
               /\ Goto(p, "o_match")
               /\ UNCHANGED << key, df, tmp, rowcount >>
          ELSE IF ocr[p].attempt + 1 = MaxPolls
          THEN Finish(p, OcrResp(500, "timeout"), tbl)
          ELSE /\ ocr' = [ocr EXCEPT ![p] = [attempt |-> @.attempt + 1, status |-> st]]
               /\ Goto(p, "o_poll")
               /\ UNCHANGED << key, df, tmp, rowcount >>
  /\ UNCHANGED << tbl, schLock, mem, env, work, ghost >>

\* lines = [...]; return jsonify({"name": customer, "order_type": order_type}):
\* neither name is defined anywhere in app.py, so the return raises NameError.
OcrMatch(p) ==
  /\ pc[p] = "o_match"
  /\ OcrRaise(p, "nameerror")
  /\ UNCHANGED << tbl, schLock, mem, env, work, ghost >>

\* ------------------------------------------------------------ environment

\* The database stops answering (connection lost, server away), and comes back.
DbFail ==
  /\ dbUp
  /\ dbUp' = FALSE
  /\ out' = NoResp
  /\ UNCHANGED << tbl, schLock, mem, conc, pc, locals, work, hist, ghost >>

DbRecover ==
  /\ ~dbUp
  /\ dbUp' = TRUE
  /\ out' = NoResp
  /\ UNCHANGED << tbl, schLock, mem, conc, pc, locals, work, hist, ghost >>

\* ----------------------------------------------------------- specifications

Next ==
  \/ \E p \in Procs : \E raw \in RawNames : ScanStart(p, raw)
  \/ \E p \in Procs : ScanExists(p)
  \/ \E p \in Procs : ScanAlready(p)
  \/ \E p \in Procs : ScanUpdate(p)
  \/ \E p \in Procs : ScanCommit(p)
  \/ \E p \in Procs : ImportLoad(p)
  \/ \E p \in Procs : ImportDrop(p)
  \/ \E p \in Procs : ImportCreate(p)
  \/ \E p \in Procs : ImportInsert(p)
  \/ \E p \in Procs : ImportCommit(p)
  \/ \E p \in Procs : ImportMem(p)
  \/ \E p \in Procs : ImportReply(p)
  \/ \E p \in Procs : StatusTotal(p)
  \/ \E p \in Procs : StatusScanned(p)
  \/ \E p \in Procs : StatusFallback(p)
  \/ \E p \in Procs : StatusReply(p)
  \/ \E p \in Procs : get_bags(p)
  \/ DbFail
  \/ DbRecover

Spec == Init /\ [][Next]_vars

\* A single-worker server: one request at a time.
InitSeq == Start(1)

SpecSeq == InitSeq /\ [][Next]_vars

\* The import's reading and classification alone, over sheets with every
\* kind of date and weight cell.
ClassifyLoad(p) == ImportLoadFrom(p, { Load(f) : f \in ClassifyFiles })

NextClassify == \E p \in Procs : ClassifyLoad(p)

SpecClassify == InitSeq /\ [][NextClassify]_vars

\* POST /api/ocr alone, on the threaded server: the handler reads and writes
\* neither the table nor the in-memory lists.
NextOcr ==
  \/ \E p \in Procs : \E image \in BOOLEAN : OcrStart(p, image)
  \/ \E p \in Procs : OcrSubmit(p)
  \/ \E p \in Procs : OcrPoll(p)
  \/ \E p \in Procs : OcrMatch(p)

SpecOcr == Init /\ [][NextOcr]_vars

\* ------------------------------------------------------------------ claims

\* C1: on a single-worker server, two POST /scan requests in a row for the same
\* name, the first finding that name on an unscanned row, and both reaching the
\* database: the first is answered 200, the second 400 already scanned, and the
\* number of scanned rows after the second is one more than before the first.
C1_ScanTwice ==
  ( /\ Len(hist) = 2
    /\ hist[1].op = "scan" /\ hist[2].op = "scan"
    /\ hist[1].key = hist[2].key
    /\ hist[1].fresh
    /\ hist[1].kind # "error" /\ hist[2].kind # "error" )
  => /\ hist[1].kind = "ok"
     /\ hist[2].kind = "already"
     /\ hist[2].after = hist[1].before + 1

C1_Witness ==
  /\ Len(hist) = 2
  /\ hist[1].op = "scan" /\ hist[2].op = "scan"
  /\ hist[1].key = hist[2].key
  /\ hist[1].fresh
  /\ hist[1].kind = "ok" /\ hist[2].kind = "already"
  /\ Len(tbl.rows) = 2

\* C2: two POST /scan requests for the same unscanned name never both succeed:
\* between two imports a name is answered "scanned successfully" at most once.
C2_OneSuccess == \A k \in Keys : successes[k] <= 1

\* C3 as stated: every POST /scan answered on its way to the existence check
\* (lines 135-144), with the database reachable and no row of the table
\* holding its name, is answered 400 not-found and changes nothing.
C3_Original ==
  [][ ( /\ out'.op = "scan"
        /\ pc[out'.by] \in {"idle", "s_exists"}
        /\ dbUp /\ schLock = None /\ tbl.exists
        /\ ~ \E i \in 1..Len(tbl.rows) : tbl.rows[i].name = out'.key )
      => /\ out'.kind = "notfound" /\ out'.code = 400
         /\ UNCHANGED << tbl, bag_list, scanned_bags >> ]_vars

\* C3, amended: a POST /scan whose stripped name is not empty, and whose
\* existence check finds no row of the table with that name, is answered 400
\* not-found and leaves the table and the in-memory lists unchanged, whatever
\* the size of the table.
C3_UnknownKey ==
  [][ \A p \in Procs :
        ( /\ pc[p] = "s_exists" /\ pc'[p] # "s_exists"
          /\ dbUp /\ schLock = None /\ tbl.exists
          /\ ~ \E i \in 1..Len(tbl.rows) : tbl.rows[i].name = key[p] )
        => /\ key[p] # <<>>
           /\ out'.op = "scan" /\ out'.by = p /\ out'.key = key[p]
           /\ out'.kind = "notfound" /\ out'.code = 400
           /\ UNCHANGED << tbl, bag_list, scanned_bags >> ]_vars

C3_Witness ==
  /\ out.op = "scan" /\ out.kind = "notfound"
  /\ tbl.exists /\ Len(tbl.rows) = 2

ImportPcs == {"i_drop", "i_create", "i_insert", "i_commit"}

\* C4: no step of the rebuild but its commit changes the persisted table; the
\* commit leaves exactly the rows of the new source, in order, all unscanned;
\* and a rebuild that fails (at the drop, the create, an insert or the commit)
\* leaves the persisted table as it was.
C4_AllOrNothing ==
  [][ \A p \in Procs :
        ( pc[p] \in ImportPcs /\ (pc'[p] # pc[p] \/ work'[p] # work[p]) )
        => \/ tbl' = tbl /\ pc'[p] # "i_mem"
           \/ /\ pc[p] = "i_commit" /\ pc'[p] = "i_mem"
              /\ tbl'.exists
              /\ Len(tbl'.rows) = Len(df[p])
              /\ \A i \in 1..Len(df[p]) :
                   /\ tbl'.rows[i].name = df[p][i].Customer
                   /\ ~tbl'.rows[i].scanned ]_vars

\* A rebuild has just failed at its second insert, and the table still holds
\* its two old rows, one of them scanned.
C4_Witness ==
  /\ out.op = "import" /\ out.kind = "integrity"
  /\ tbl.exists /\ Len(tbl.rows) = 2
  /\ out.before = 1 /\ out.after = 1

HasRepeat(d) ==
  \E i, j \in 1..Len(d) : i # j /\ d[i].Customer = d[j].Customer

\* C5: an import whose source repeats a customer name does not fail at an
\* insert while the database answers.
C5_DuplicatesImport ==
  [][ \A p \in Procs :
        ( pc[p] = "i_insert" /\ dbUp /\ HasRepeat(df[p]) )
        => ~(out'.op = "import" /\ out'.by = p /\ out'.code = 500) ]_vars

\* C6: every step that is not the commit of an import keeps the rows of the
\* table and keeps every scanned row scanned.
C6_ScannedMonotonic ==
  [][ (\A p \in Procs : ~(pc[p] = "i_commit" /\ pc'[p] = "i_mem"))
      => /\ tbl'.exists = tbl.exists
         /\ Len(tbl'.rows) = Len(tbl.rows)
         /\ \A i \in 1..Len(tbl.rows) :
              /\ tbl'.rows[i].name = tbl.rows[i].name
              /\ tbl.rows[i].scanned => tbl'.rows[i].scanned ]_vars

\* A scanned row has been scanned again, and is still scanned.
C6_Witness ==
  /\ out.op = "scan" /\ out.kind = "already"
  /\ \E i \in 1..Len(tbl.rows) : tbl.rows[i].name = out.key /\ tbl.rows[i].scanned

\* C7: every GET /status response has remaining = total - scanned, from the
\* database and from the fallback.  The fallback reads bag_list twice, for
\* remaining and then for total, and an import may assign it in between.
C7_StatusRemaining ==
  out.op = "status" => out.remaining = out.total - out.scanned

\* C8: a scan answered "scanned successfully" leaves a row with its name
\* scanned in the table.
C8_SuccessHasRow ==
  [][ (out'.op = "scan" /\ out'.kind = "ok")
      => \E i \in 1..Len(tbl'.rows) :
           tbl'.rows[i].name = out'.key /\ tbl'.rows[i].scanned ]_vars

\* C9: on a single-worker server every GET /status reports the size of the
\* last committed import and the number of names scanned with success since,
\* and every GET /bags lists that import's names and marks those names.
C9_ReadsReflect ==
  /\ out.op = "status"
       => out.total = Len(lastImport) /\ out.scanned = Cardinality(scannedSince)
  /\ out.op = "bags"
       => /\ Len(out.bags) = Len(lastImport)
          /\ \A i \in 1..Len(out.bags) :
               /\ out.bags[i].name = lastImport[i]
               /\ out.bags[i].scanned <=> out.bags[i].name \in scannedSince

\* The cell holds the letters of TODAY in a row, in either case.
CarriesToken(d) ==
  \E i \in 1..Len(d) :
    /\ i + 4 <= Len(d)
    /\ d[i] \in {"T", "t"} /\ d[i + 1] \in {"O", "o"} /\ d[i + 2] \in {"D", "d"}
    /\ d[i + 3] \in {"A", "a"} /\ d[i + 4] \in {"Y", "y"}

\* C10: in every data frame, a row whose date cell carries the token is RUSH,
\* and a row is RUSH exactly when some row of the frame with the same canonical
\* date carries the token, NON-RUSH otherwise.
C10_RushClassification ==
  \A p \in Procs : \A i \in 1..Len(df[p]) :
    LET d == df[p] IN
    /\ d[i].Rush \in {"RUSH", "NON-RUSH"}
    /\ CarriesToken(d[i].Date) => d[i].Rush = "RUSH"
    /\ d[i].Rush = "RUSH" <=>
         \E j \in 1..Len(d) :
           CarriesToken(d[j].Date) /\ d[j].Actual_Date = d[i].Actual_Date

\* The sheet of the specification's example: 7/1 TODAY, 7/1 and 7/2.
C10_Witness ==
  \E p \in Procs :
    /\ Len(df[p]) = 3
    /\ df[p][1].Date = <<"7", "/", "1", " ", "T", "O", "D", "A", "Y">>
    /\ df[p][2].Date = <<"7", "/", "1">>
    /\ df[p][3].Date = <<"7", "/", "2">>
    /\ df[p][1].Rush = "RUSH" /\ df[p][2].Rush = "RUSH"
    /\ df[p][3].Rush = "NON-RUSH"

\* The text of a weight cell without its unit: a trailing lbs, in any case, and
\* the blanks around the number are dropped.
Unitless(s) ==
  LET t == Strip(s)
      n == Len(t)
  IN  IF n >= 3 /\ Lower(SubSeq(t, n - 2, n)) = <<"l", "b", "s">>
      THEN RStrip(SubSeq(t, 1, n - 3))
      ELSE t

\* The cell reads as an unsigned number, whole or decimal, with or without unit.
IsNumber(v) ==
  /\ v # NaN
  /\ LET u == Unitless(v) IN
     IsDecimal(IF u # <<>> /\ Head(u) = "+" THEN Tail(u) ELSE u)

\* The number's mantissa holds a digit other than 0.
IsPositive(v) ==
  /\ IsNumber(v)
  /\ \E i \in 1..Len(v) :
       /\ v[i] \in Digits \ {"0"}
       /\ \A j \in 1..i : v[j] \notin {"e", "E"}

\* A negative number, which the rule does not speak of.
IsNegative(v) ==
  /\ v # NaN
  /\ Unitless(v) # <<>> /\ Head(Unitless(v)) = "-"
  /\ IsDecimal(Tail(Unitless(v)))

\* C11: in every data frame, a row whose weight cell reads as a positive number
\* (whole or decimal, with or without lbs) is Wash and Fold, and a row whose
\* cell is zero, missing or not a number is Hang Dry.
C11_CategoryClassification ==
  \A p \in Procs : \A i \in 1..Len(df[p]) :
    LET w == df[p][i].WF
        c == df[p][i].Category
    IN  /\ IsPositive(w) => c = WashAndFold
        /\ (~IsPositive(w) /\ ~IsNegative(w)) => c = HangDry

\* C12: the polling makes at most 15 polls, and goes on to another poll only
\* while the job has reported neither completion nor failure: a poll that
\* reads "succeeded" or "failed" is the request's last.
C12_PollingStops ==
  [][ \A p \in Procs :
        ( pc[p] = "o_poll" /\ pc'[p] = "o_poll" /\ ocr'[p] # ocr[p] )
        => /\ ocr'[p].attempt < MaxPolls
           /\ ocr'[p].status \notin {"succeeded", "failed"} ]_vars

\* C13: a request whose poll has read "succeeded" is answered 200 with name and
\* order_type, and every response of the handler is one of the documented ones.
C13_DocumentedOutcomes ==
  [][ \A p \in Procs :
        /\ (pc[p] = "o_match" /\ pc'[p] = "idle")
             => out'.op = "ocr" /\ out'.code = 200 /\ out'.kind = "ok"
        /\ (out'.op = "ocr" /\ out'.by = p /\ ocr[p].status # "succeeded")
             => \/ out'.code = 400 /\ out'.kind = "noimage"
                \/ out'.code = 500
                     /\ out'.kind \in {"readfailed", "nolocation", "timeout", "error"} ]_vars

\* C14: an import answered at its first step, before the rebuild (the file is
\* missing, or a date, customer or weight column is not found), is answered
\* 500, and leaves the table, bag_list and scanned_bags as they were.
C14_EarlyFailure ==
  [][ \A p \in Procs :
        ( pc[p] = "idle" /\ out'.op = "import" /\ out'.by = p )
        => /\ out'.code = 500
           /\ out'.kind \in {"nofile", "schema"}
           /\ UNCHANGED << tbl, schLock, work, bag_list, scanned_bags >> ]_vars

\* An import has just failed on its columns, and the table still holds its two
\* rows, one of them scanned, and bag_list its two names.
C14_Witness ==
  /\ out.op = "import" /\ out.kind = "schema" /\ out.code = 500
  /\ tbl.exists /\ Len(tbl.rows) = 2 /\ ScannedCount(tbl.rows) = 1
  /\ Len(bag_list) = 2

\* Counts over a data frame: the rows with a given rush label, and category.
RushCount(d, r) == Cardinality({ i \in 1..Len(d) : d[i].Rush = r })
CategoryCount(d, c) == Cardinality({ i \in 1..Len(d) : d[i].Category = c })

\* C15: for every import that succeeds, with total the number of rows of its
\* data frame (the rows kept by dropna): the commit leaves total rows in the
\* table, the response reports total, and total = rush + non-rush =
\* hang-dry + wash-and-fold.  The response reads len(bag_list), the global
\* list, which another import may have assigned since.
C15_CountsPartition ==
  [][ \A p \in Procs :
        LET total == Len(df[p]) IN
        /\ (pc[p] = "i_commit" /\ pc'[p] = "i_mem") => Len(tbl'.rows) = total
        /\ (pc[p] = "i_reply" /\ pc'[p] = "idle")
             => /\ out'.op = "import" /\ out'.code = 200 /\ out'.total = total
                /\ total = RushCount(df[p], "RUSH") + RushCount(df[p], "NON-RUSH")
                /\ total = CategoryCount(df[p], HangDry)
                             + CategoryCount(df[p], WashAndFold) ]_vars

\* C16: on a single-worker server, an import that succeeds on the same source
\* as the last import that succeeded, whatever was scanned in between, derives
\* the same data frame (category and rush of every row) and leaves the table,
\* with every row unscanned, and the in-memory lists as that import left them.
C16_ReimportSame ==
  [][ \A p \in Procs :
        ( /\ pc[p] = "i_reply" /\ pc'[p] = "idle"
          /\ imported.done
          /\ RawOf(df[p]) = RawOf(imported.df) )
        => /\ df[p] = imported.df
           /\ tbl' = imported.tbl
           /\ \A i \in 1..Len(tbl'.rows) : ~tbl'.rows[i].scanned
           /\ bag_list' = imported.bag_list
           /\ scanned_bags' = imported.scanned_bags ]_vars

\* The same sheet of two rows has been imported again after a scan in between.
C16_Witness ==
  /\ out.op = "import" /\ out.code = 200
  /\ imported.done /\ imported.again
  /\ Len(imported.df) = 2
  /\ tbl = imported.tbl /\ Len(tbl.rows) = 2

\* C17: a scan answered "scanned successfully" has turned exactly one row, the
\* one with its name, from unscanned to scanned, and has left the other rows,
\* and the number of rows, as they were.
C17_ScanFrame ==
  [][ (out'.op = "scan" /\ out'.kind = "ok")
      => /\ Len(tbl'.rows) = Len(tbl.rows)
         /\ Cardinality({ i \in 1..Len(tbl.rows) :
                            /\ tbl.rows[i].name = out'.key
                            /\ ~tbl.rows[i].scanned
                            /\ tbl'.rows[i].scanned }) = 1
         /\ \A i \in 1..Len(tbl.rows) :
              /\ tbl'.rows[i].name = tbl.rows[i].name
              /\ tbl.rows[i].name # out'.key
                   => tbl'.rows[i].scanned = tbl.rows[i].scanned ]_vars

\* C18: every GET /status response served from the database has
\* 0 <= scanned <= total, and so remaining >= 0.
C18_StatusBounds ==
  (out.op = "status" /\ out.kind = "status")
    => /\ 0 <= out.scanned /\ out.scanned <= out.total
       /\ out.remaining >= 0

\* The names of the rows of the table, in order.
TableNames(t) == [i \in 1..Len(t.rows) |-> t.rows[i].name]

\* C19: once every import has returned and no request is in progress, bag_list
\* holds the names of the rows of the persisted table.
C19_ListsMatchTable ==
  (\A p \in Procs : pc[p] = "idle") => bag_list = TableNames(tbl)

====
